---- MODULE Spec2Model ----
(***************************************************************************)
(* Model of the gesture feed: the GestureController component (async       *)
(* setup, per-frame predictWebcam loop, cooldown timer, effect cleanup)    *)
(* and the feed's handleSwipe, as written in src/src/App.tsx and in the    *)
(* video-feed variant src/unnamed/part_000 (same logic, 1200 ms timer).    *)
(*                                                                         *)
(* Wrist y is kept in hundredths of the normalized coordinate, so the      *)
(* 0.08 threshold is 8.  Time is not measured: a scheduled cooldown timer  *)
(* may fire at any later point, which covers every interleaving of timer   *)
(* and frame callbacks on the single JavaScript thread.                    *)
(***************************************************************************)
EXTENDS Integers, FiniteSets, Sequences, TLC

\* ---- bounds of the model ----
MaxEffects == 2          \* how many times the [debugMode] effect may be set up

\* ---- program constants ----
PanelCount == 4          \* COLORS.length / VIDEOS.length
threshold == 8           \* const threshold = 0.08, in hundredths
innerHeight == 100       \* window.innerHeight, any fixed positive viewport height

Null == -1               \* lastYRef.current === null; no landmarks; no scroll yet
YValues == {30, 42, 50, 52, 58}
Samples == YValues \cup {Null}      \* Null: results.landmarks.length = 0
VideoWidths == {0, 640}             \* videoRef.current.videoWidth
Effects == 1..MaxEffects

StInit == "init"         \* useState("初始化中...")
StLoading == "loading"   \* "正在初始化 AI 引擎..."
StReady == "ready"       \* "✅ 准备就绪：请对着摄像头挥手"
StDenied == "denied"     \* "❌ 摄像头权限被拒绝"
StError == "error"       \* "❌ 错误: ..."

VARIABLES
  activeIndex,        \* App: useState(0)
  scrollTop,          \* target of the last containerRef.scrollTo, Null if none
  status,             \* App: useState status string
  lastYRef,           \* GestureController: lastYRef.current
  isCooldownRef,      \* GestureController: isCooldownRef.current
  debugMode,          \* the debugMode prop of the current render
  domMounted,         \* videoRef.current / canvasRef.current are attached
  hasMediaDevices,    \* navigator.mediaDevices && navigator.mediaDevices.getUserMedia
  nEff,               \* number of effect instances set up so far
  pc,                 \* per effect: where its async setup() is suspended
  isMounted,          \* per effect: let isMounted
  gestureRecognizer,  \* per effect: "null" | "open" | "closed"
  requestRef,         \* per effect: an animation frame is requested
  timers,             \* per effect: number of pending cooldown setTimeout callbacks
  effDebug,           \* per effect: the debugMode its closures captured
  stream,             \* per effect: "none" | "live" | "stopped" camera stream
  srcObject,          \* videoRef.current.srcObject: 0 or the effect whose stream it is
  last,               \* record of the step just taken (observation only)
  sinceExpiry,        \* present samples processed since the last expiry, Null before any
  emitsSinceExpiry,   \* swipe events emitted since the last expiry (or since start)
  gap                 \* no sample processed yet, or the last processed one had no hand

feedVars == <<activeIndex, scrollTop>>
debVars == <<lastYRef, isCooldownRef>>
effVars == <<nEff, pc, isMounted, gestureRecognizer, requestRef, timers, effDebug>>
camVars == <<stream, srcObject>>
histVars == <<last, sinceExpiry, emitsSinceExpiry, gap>>
vars == <<activeIndex, scrollTop, status, lastYRef, isCooldownRef, debugMode,
          domMounted, hasMediaDevices, nEff, pc, isMounted, gestureRecognizer,
          requestRef, timers, effDebug, stream, srcObject, last, sinceExpiry,
          emitsSinceExpiry, gap>>

Min(a, b) == IF a < b THEN a ELSE b

\* ---- the feed controller ----

\* variant: NEXT increments without looking at the last panel
NewIndexNoUpperBound(prevIndex, dir) ==
  IF dir = "NEXT" THEN prevIndex + 1
  ELSE IF dir = "PREV" /\ prevIndex > 0 THEN prevIndex - 1
  ELSE prevIndex

\* variant: the index wraps around at both ends
NewIndexWrapping(prevIndex, dir) ==
  IF dir = "NEXT" THEN (prevIndex + 1) % PanelCount
  ELSE IF dir = "PREV" THEN (prevIndex + PanelCount - 1) % PanelCount
  ELSE prevIndex

\* the setActiveIndex updater: the new index for a swipe in direction dir
NewIndex(prevIndex, dir) ==
  IF dir = "NEXT" /\ prevIndex < PanelCount - 1 THEN prevIndex + 1
  ELSE IF dir = "PREV" /\ prevIndex > 0 THEN prevIndex - 1
  ELSE prevIndex

\* variant: scrollTo is called for every swipe event
ScrollRequestedAlways(prevIndex, dir) == dir # "NONE"

\* variant: the scroll goes to the offset of the index before the swipe
ScrollTargetStale(prevIndex, dir, prevTop) ==
  IF NewIndex(prevIndex, dir) # prevIndex THEN prevIndex * innerHeight ELSE prevTop

\* if (newIndex !== prevIndex): whether the swipe issues containerRef.scrollTo
ScrollRequested(prevIndex, dir) == NewIndex(prevIndex, dir) # prevIndex

\* containerRef.scrollTo({top: newIndex * window.innerHeight}) when the index changed
ScrollTarget(prevIndex, dir, prevTop) ==
  IF ScrollRequested(prevIndex, dir)
    THEN NewIndex(prevIndex, dir) * innerHeight
    ELSE prevTop

\* ---- the debouncer: the landmark branch of predictWebcam ----

\* variant: the comparison does not look at isCooldownRef
EmitIgnoringCooldown(ly, cool, currY) ==
  IF currY # Null /\ ly # Null
    THEN IF currY - ly < -threshold THEN "NEXT"
         ELSE IF currY - ly > threshold THEN "PREV"
         ELSE "NONE"
    ELSE "NONE"

\* variant: the comparisons include the threshold itself
EmitInclusive(ly, cool, currY) ==
  IF currY # Null /\ ly # Null /\ ~cool
    THEN IF currY - ly <= -threshold THEN "NEXT"
         ELSE IF currY - ly >= threshold THEN "PREV"
         ELSE "NONE"
    ELSE "NONE"

\* the event the comparison emits for sample currY against baseline ly
Emit(ly, cool, currY) ==
  IF currY # Null /\ ly # Null /\ ~cool
    THEN IF currY - ly < -threshold THEN "NEXT"
         ELSE IF currY - ly > threshold THEN "PREV"
         ELSE "NONE"
    ELSE "NONE"

\* variant: an absent hand leaves the baseline where it was
StepLastYStale(ly, cool, currY) == IF currY = Null THEN ly ELSE currY

\* variant: the baseline is frozen while cooling
StepLastYFrozen(ly, cool, currY) == IF cool /\ currY # Null THEN ly ELSE currY

\* lastYRef.current after the branch: currY when a hand is present, null otherwise
StepLastY(ly, cool, currY) == currY

\* variant: a sample with no hand also ends the cooldown
StepCoolingGapClears(ly, cool, currY) ==
  IF currY = Null THEN FALSE ELSE cool \/ Emit(ly, cool, currY) # "NONE"

\* variant: an emission does not engage the cooldown
StepCoolingNever(ly, cool, currY) == cool

\* isCooldownRef.current after the branch: triggerCooldown() sets it on emission
StepCooling(ly, cool, currY) == cool \/ Emit(ly, cool, currY) # "NONE"

\* predictWebcam's isMounted guard
FrameRuns(e) == isMounted[e]

\* variant: the setTimeout callback has no isMounted guard
TimerRunsAlways(e) == TRUE

\* the setTimeout callback's isMounted guard
TimerRuns(e) == isMounted[e]

\* variant: the expiry does not reset the baseline
TimerLastYKept(e) == lastYRef

\* lastYRef.current after the setTimeout callback
TimerLastY(e) == IF TimerRuns(e) THEN Null ELSE lastYRef

\* isCooldownRef.current after the setTimeout callback
TimerCooling(e) == IF TimerRuns(e) THEN FALSE ELSE isCooldownRef

\* whether the frame gets a recognition result: mounted, recognizer, refs, videoWidth > 0
Recognizes(e, vw) ==
  /\ FrameRuns(e)
  /\ gestureRecognizer[e] # "null" /\ domMounted
  /\ vw > 0

\* whether the frame reaches the landmark branch: if (ctx && debugMode)
Processes(e, vw) == Recognizes(e, vw) /\ effDebug[e]

\* whether a rejected await reports its message: if (isMounted)
ErrorReports(e) == isMounted[e]

\* whether the ready message is reported after play() settles: no guard
ReadyReports(e) == TRUE

\* whether the frame requests the next animation frame
Requests(e) == FrameRuns(e) /\ gestureRecognizer[e] # "null" /\ domMounted

Obs(kind, e, y, stepped, emitted) ==
  [kind |-> kind, eff |-> e, y |-> y, stepped |-> stepped, emitted |-> emitted,
   preLastY |-> lastYRef, preCooling |-> isCooldownRef,
   preMounted |-> IF e = 0 THEN TRUE ELSE isMounted[e],
   preIndex |-> activeIndex, preTop |-> scrollTop,
   scrolled |-> ScrollRequested(activeIndex, emitted),
   preSince |-> sinceExpiry, preGap |-> gap,
   recognized |-> FALSE, reported |-> "none"]

\* the observation of a step that may have seen a result and reported a status
ObsFull(kind, e, y, stepped, emitted, recognized, reported) ==
  [Obs(kind, e, y, stepped, emitted) EXCEPT !.recognized = recognized,
                                            !.reported = reported]

\* one call of predictWebcam() by effect e, seeing sample y and video width vw
PredictWebcam(e, y, vw, kind, reported) ==
  LET stepped == Processes(e, vw)
      ev == IF stepped THEN Emit(lastYRef, isCooldownRef, y) ELSE "NONE"
  IN /\ lastYRef' = IF stepped THEN StepLastY(lastYRef, isCooldownRef, y) ELSE lastYRef
     /\ isCooldownRef' = IF stepped THEN StepCooling(lastYRef, isCooldownRef, y)
                                    ELSE isCooldownRef
     /\ timers' = IF ev # "NONE" THEN [timers EXCEPT ![e] = @ + 1] ELSE timers
     /\ activeIndex' = NewIndex(activeIndex, ev)
     /\ scrollTop' = ScrollTarget(activeIndex, ev, scrollTop)
     /\ requestRef' = [requestRef EXCEPT ![e] = Requests(e)]
     /\ last' = ObsFull(kind, e, y, stepped, ev, Recognizes(e, vw), reported)
     /\ sinceExpiry' = IF stepped /\ y # Null /\ sinceExpiry # Null
                         THEN Min(sinceExpiry + 1, 2) ELSE sinceExpiry
     /\ emitsSinceExpiry' = IF ev # "NONE" THEN Min(emitsSinceExpiry + 1, 2)
                                           ELSE emitsSinceExpiry
     /\ gap' = IF stepped THEN y = Null ELSE gap

\* requestAnimationFrame(predictWebcam) fires
Frame(e, y, vw) ==
  /\ requestRef[e]
  /\ PredictWebcam(e, y, vw, "frame", "none")
  /\ UNCHANGED <<status, debugMode, domMounted, hasMediaDevices, nEff, pc, isMounted,
                 gestureRecognizer, effDebug, stream, srcObject>>

\* the setTimeout callback of triggerCooldown fires
TimerFire(e) ==
  /\ timers[e] > 0
  /\ timers' = [timers EXCEPT ![e] = @ - 1]
  /\ isCooldownRef' = TimerCooling(e)
  /\ lastYRef' = TimerLastY(e)
  /\ sinceExpiry' = IF TimerRuns(e) THEN 0 ELSE sinceExpiry
  /\ emitsSinceExpiry' = IF TimerRuns(e) THEN 0 ELSE emitsSinceExpiry
  /\ last' = Obs("timer", e, Null, FALSE, "NONE")
  /\ UNCHANGED <<feedVars, status, debugMode, domMounted, hasMediaDevices, nEff, pc,
                 isMounted, gestureRecognizer, requestRef, effDebug, camVars, gap>>

\* ---- async setup() ----

\* await FilesetResolver.forVisionTasks resolves
VisionResolved(e) ==
  /\ pc[e] = "vision"
  /\ pc' = [pc EXCEPT ![e] = IF isMounted[e] THEN "create" ELSE "done"]
  /\ last' = Obs("setup", e, Null, FALSE, "NONE")
  /\ UNCHANGED <<feedVars, debVars, status, debugMode, domMounted, hasMediaDevices,
                 nEff, isMounted, gestureRecognizer, requestRef, timers, effDebug,
                 camVars, sinceExpiry, emitsSinceExpiry, gap>>

\* an await of the outer try rejects: forVisionTasks or createFromOptions
LoadRejected(e) ==
  /\ pc[e] \in {"vision", "create"}
  /\ pc' = [pc EXCEPT ![e] = "done"]
  /\ status' = IF ErrorReports(e) THEN StError ELSE status
  /\ last' = ObsFull("setup", e, Null, FALSE, "NONE", FALSE,
                     IF ErrorReports(e) THEN StError ELSE "none")
  /\ UNCHANGED <<feedVars, debVars, debugMode, domMounted, hasMediaDevices, nEff,
                 isMounted, gestureRecognizer, requestRef, timers, effDebug, camVars,
                 sinceExpiry, emitsSinceExpiry, gap>>

\* await GestureRecognizer.createFromOptions resolves
CreateResolved(e) ==
  /\ pc[e] = "create"
  /\ gestureRecognizer' = [gestureRecognizer EXCEPT ![e] = "open"]
  /\ pc' = [pc EXCEPT ![e] = IF hasMediaDevices THEN "camera" ELSE "done"]
  /\ last' = Obs("setup", e, Null, FALSE, "NONE")
  /\ UNCHANGED <<feedVars, debVars, status, debugMode, domMounted, hasMediaDevices,
                 nEff, isMounted, requestRef, timers, effDebug, camVars, sinceExpiry,
                 emitsSinceExpiry, gap>>

\* await navigator.mediaDevices.getUserMedia resolves
CameraResolved(e) ==
  /\ pc[e] = "camera"
  /\ stream' = [stream EXCEPT ![e] = "live"]
  /\ srcObject' = IF domMounted /\ isMounted[e] THEN e ELSE srcObject
  /\ pc' = [pc EXCEPT ![e] = IF domMounted /\ isMounted[e] THEN "play" ELSE "done"]
  /\ last' = Obs("setup", e, Null, FALSE, "NONE")
  /\ UNCHANGED <<feedVars, debVars, status, debugMode, domMounted, hasMediaDevices,
                 nEff, isMounted, gestureRecognizer, requestRef, timers, effDebug,
                 sinceExpiry, emitsSinceExpiry, gap>>

\* await navigator.mediaDevices.getUserMedia rejects
CameraRejected(e) ==
  /\ pc[e] = "camera"
  /\ pc' = [pc EXCEPT ![e] = "done"]
  /\ status' = IF ErrorReports(e) THEN StDenied ELSE status
  /\ last' = ObsFull("setup", e, Null, FALSE, "NONE", FALSE,
                     IF ErrorReports(e) THEN StDenied ELSE "none")
  /\ UNCHANGED <<feedVars, debVars, debugMode, domMounted, hasMediaDevices, nEff,
                 isMounted, gestureRecognizer, requestRef, timers, effDebug, camVars,
                 sinceExpiry, emitsSinceExpiry, gap>>

\* await videoRef.current.play().catch(...) settles: report ready, first predictWebcam()
PlaySettled(e, y, vw) ==
  /\ pc[e] = "play"
  /\ pc' = [pc EXCEPT ![e] = "done"]
  /\ status' = IF ReadyReports(e) THEN StReady ELSE status
  /\ PredictWebcam(e, y, vw, "play", IF ReadyReports(e) THEN StReady ELSE "none")
  /\ UNCHANGED <<debugMode, domMounted, hasMediaDevices, nEff, isMounted,
                 gestureRecognizer, effDebug, stream, srcObject>>

\* ---- effect lifecycle ----

\* the function the effect returns, run for effect e; refs says videoRef.current is set
CleanupStream(refs) ==
  IF refs /\ srcObject # 0 THEN [stream EXCEPT ![srcObject] = "stopped"] ELSE stream

CleanupRecognizer(e) ==
  IF gestureRecognizer[e] # "null"
    THEN [gestureRecognizer EXCEPT ![e] = "closed"] ELSE gestureRecognizer

\* the debugMode prop changes: cleanup of the current effect, then the effect runs again
ChangeDebugMode ==
  /\ domMounted
  /\ nEff < MaxEffects
  /\ debugMode' = ~debugMode
  /\ nEff' = nEff + 1
  /\ isMounted' = [isMounted EXCEPT ![nEff] = FALSE, ![nEff + 1] = TRUE]
  /\ requestRef' = [requestRef EXCEPT ![nEff] = FALSE]
  /\ gestureRecognizer' = CleanupRecognizer(nEff)
  /\ stream' = CleanupStream(TRUE)
  /\ effDebug' = [effDebug EXCEPT ![nEff + 1] = ~debugMode]
  /\ pc' = [pc EXCEPT ![nEff + 1] = "vision"]
  /\ status' = StLoading
  /\ last' = ObsFull("change", 0, Null, FALSE, "NONE", FALSE, StLoading)
  /\ UNCHANGED <<feedVars, debVars, domMounted, hasMediaDevices, timers, srcObject,
                 sinceExpiry, emitsSinceExpiry, gap>>

\* the component is removed: refs are detached, then the effect cleanup runs
Unmount ==
  /\ domMounted
  /\ domMounted' = FALSE
  /\ isMounted' = [isMounted EXCEPT ![nEff] = FALSE]
  /\ requestRef' = [requestRef EXCEPT ![nEff] = FALSE]
  /\ gestureRecognizer' = CleanupRecognizer(nEff)
  /\ stream' = CleanupStream(FALSE)
  /\ last' = Obs("unmount", 0, Null, FALSE, "NONE")
  /\ UNCHANGED <<feedVars, debVars, status, debugMode, hasMediaDevices, nEff, pc,
                 timers, effDebug, srcObject, sinceExpiry, emitsSinceExpiry, gap>>

\* first render with debugMode={true}; the effect has run setup() up to its first await
Init ==
  /\ activeIndex = 0
  /\ scrollTop = Null
  /\ status = StLoading
  /\ lastYRef = Null
  /\ isCooldownRef = FALSE
  /\ debugMode = TRUE
  /\ domMounted = TRUE
  /\ hasMediaDevices \in BOOLEAN
  /\ nEff = 1
  /\ pc = [e \in Effects |-> IF e = 1 THEN "vision" ELSE "idle"]
  /\ isMounted = [e \in Effects |-> e = 1]
  /\ gestureRecognizer = [e \in Effects |-> "null"]
  /\ requestRef = [e \in Effects |-> FALSE]
  /\ timers = [e \in Effects |-> 0]
  /\ effDebug = [e \in Effects |-> TRUE]
  /\ stream = [e \in Effects |-> "none"]
  /\ srcObject = 0
  /\ last = [kind |-> "init", eff |-> 0, y |-> Null, stepped |-> FALSE,
             emitted |-> "NONE", preLastY |-> Null, preCooling |-> FALSE,
             preMounted |-> TRUE, preIndex |-> 0, preTop |-> Null,
             scrolled |-> FALSE, preSince |-> Null, preGap |-> TRUE,
             recognized |-> FALSE, reported |-> StLoading]
  /\ sinceExpiry = Null
  /\ emitsSinceExpiry = 0
  /\ gap = TRUE

Next ==
  \/ \E e \in Effects, y \in Samples, vw \in VideoWidths : Frame(e, y, vw)
  \/ \E e \in Effects : TimerFire(e)
  \/ \E e \in Effects : VisionResolved(e)
  \/ \E e \in Effects : LoadRejected(e)
  \/ \E e \in Effects : CreateResolved(e)
  \/ \E e \in Effects : CameraResolved(e)
  \/ \E e \in Effects : CameraRejected(e)
  \/ \E e \in Effects, y \in Samples, vw \in VideoWidths : PlaySettled(e, y, vw)
  \/ ChangeDebugMode
  \/ Unmount

Spec == Init /\ [][Next]_vars

\* timers the browser has scheduled fire, and requested animation frames run
Fairness ==
  /\ \A e \in Effects : WF_vars(TimerFire(e))
  /\ \A e \in Effects : WF_vars(\E y \in Samples, vw \in VideoWidths : Frame(e, y, vw))

FairSpec == Spec /\ Fairness

\* ---- properties ----

IsFrameCall == last.kind \in {"frame", "play"}
Delta == last.y - last.preLastY

\* C1: activeIndex starts at 0 and stays within 0 .. PanelCount - 1 in every
\* reachable state, whatever the order of the NEXT/PREV swipe events.
C1_IndexInRange == activeIndex \in 0..(PanelCount - 1)
C1_Witness ==
  /\ last.emitted = "NEXT" /\ last.preIndex = PanelCount - 1
  /\ scrollTop = (PanelCount - 1) * innerHeight

\* C2: a predictWebcam call that starts with isCooldownRef set emits no swipe
\* event, whatever the sample and however timers and frames interleave.
C2_NoEmitWhileCooling == (IsFrameCall /\ last.preCooling) => last.emitted = "NONE"
C2_Witness ==
  /\ last.kind = "frame" /\ last.stepped /\ last.preCooling
  /\ last.y # Null /\ last.preLastY # Null /\ Delta > threshold

\* C3: for a processed present sample with no cooldown and a present baseline,
\* NEXT is emitted iff delta < -threshold, PREV iff delta > threshold, and
\* nothing iff -threshold <= delta <= threshold (the threshold itself included).
C3_ThresholdDecides ==
  (IsFrameCall /\ last.stepped /\ ~last.preCooling
     /\ last.preLastY # Null /\ last.y # Null) =>
    /\ last.emitted = "NEXT" <=> Delta < -threshold
    /\ last.emitted = "PREV" <=> Delta > threshold
    /\ last.emitted = "NONE" <=> (-threshold <= Delta /\ Delta <= threshold)
C3_Witness ==
  /\ last.stepped /\ ~last.preCooling /\ last.preLastY = 50 /\ last.y = 42
  /\ last.emitted = "NONE"

\* C4: the first sample processed after a cooldown expiry emits nothing and only
\* seeds lastYRef; an event needs at least one present sample processed since
\* the expiry before the one that emits.
C4_FirstAfterExpirySeeds ==
  (IsFrameCall /\ last.stepped /\ last.preSince = 0) =>
    (last.emitted = "NONE" /\ lastYRef = last.y)
C4_Witness ==
  /\ last.kind = "frame" /\ last.stepped /\ last.preSince = 0
  /\ last.y = 30 /\ activeIndex > 0 /\ ~isCooldownRef

\* C5: a processed sample with no hand clears lastYRef and emits nothing, and
\* the first present sample processed after it (or the first ever) emits nothing.
C5_GapResetsBaseline ==
  /\ (IsFrameCall /\ last.stepped /\ last.y = Null) =>
       (lastYRef = Null /\ last.emitted = "NONE")
  /\ (IsFrameCall /\ last.stepped /\ last.y # Null /\ last.preGap) =>
       (last.emitted = "NONE" /\ lastYRef = last.y)
C5_Witness ==
  /\ last.kind = "frame" /\ last.stepped /\ last.y = 30 /\ last.preGap
  /\ last.preSince = 2 /\ ~last.preCooling

\* C6: NEXT below the last panel adds exactly 1 to activeIndex, PREV above the
\* first panel subtracts exactly 1; no step moves the index by more than 1 and
\* the index never wraps.
C6_SwipeMovesByOne ==
  /\ (last.emitted = "NEXT" /\ last.preIndex < PanelCount - 1) =>
       activeIndex = last.preIndex + 1
  /\ (last.emitted = "PREV" /\ last.preIndex > 0) => activeIndex = last.preIndex - 1
  /\ activeIndex - last.preIndex \in {-1, 0, 1}
  /\ last.emitted = "NEXT" => activeIndex >= last.preIndex
  /\ last.emitted = "PREV" => activeIndex <= last.preIndex
  /\ last.emitted = "NONE" => activeIndex = last.preIndex
C6_Witness == last.emitted = "PREV" /\ last.preIndex = 2 /\ activeIndex = 1

\* C7: NEXT on the last panel and PREV on the first panel leave activeIndex
\* unchanged and issue no scroll request, however often they are repeated.
AtBoundary ==
  \/ last.emitted = "NEXT" /\ last.preIndex = PanelCount - 1
  \/ last.emitted = "PREV" /\ last.preIndex = 0
C7_BoundaryNoOp ==
  AtBoundary => (activeIndex = last.preIndex /\ ~last.scrolled /\ scrollTop = last.preTop)
C7_Witness ==
  /\ last.emitted = "PREV" /\ last.preIndex = 0 /\ activeIndex = 0
  /\ last.preTop = 0

\* C8: a step that emits an event has isCooldownRef set and a timer scheduled
\* when it ends, and at most one event is emitted between two cooldown expiries
\* (or before the first one).
C8_OneEventPerCooldown ==
  /\ last.emitted # "NONE" => (isCooldownRef /\ timers[last.eff] > 0)
  /\ emitsSinceExpiry <= 1
C8_Witness ==
  /\ last.emitted # "NONE" /\ last.preSince = 1 /\ emitsSinceExpiry = 1
  /\ isCooldownRef

\* C9: a frame, timer or setup callback of an effect whose cleanup has run emits
\* no swipe event and changes neither lastYRef nor isCooldownRef.
C9_NoStepAfterCleanup ==
  (last.kind \in {"frame", "play", "timer", "setup"} /\ ~last.preMounted) =>
    /\ last.emitted = "NONE" /\ ~last.stepped
    /\ lastYRef = last.preLastY
    /\ isCooldownRef = last.preCooling
C9_Witness == last.kind = "timer" /\ ~last.preMounted /\ isCooldownRef

\* C10 (as stated): a processed present sample during a cooldown leaves both
\* lastYRef and isCooldownRef unchanged and emits nothing.
C10_CooledStepChangesNothing ==
  (IsFrameCall /\ last.stepped /\ last.y # Null /\ last.preCooling) =>
    /\ last.emitted = "NONE"
    /\ lastYRef = last.preLastY
    /\ isCooldownRef = last.preCooling

\* C10 (amended): a processed present sample during a cooldown emits nothing and
\* leaves isCooldownRef set, but stores the sample in lastYRef; during a
\* cooldown only the expiry timer clears isCooldownRef.
C10_CooledStepOnlyMovesBaseline ==
  /\ (IsFrameCall /\ last.stepped /\ last.y # Null /\ last.preCooling) =>
       /\ last.emitted = "NONE"
       /\ lastYRef = last.y
       /\ isCooldownRef
       /\ activeIndex = last.preIndex
  /\ (last.preCooling /\ ~isCooldownRef) => last.kind = "timer"
C10_Witness ==
  /\ last.kind = "frame" /\ last.stepped /\ last.preCooling
  /\ last.y = 58 /\ last.preLastY = 30 /\ lastYRef = 58

\* C11 (as stated): the debouncer starts as {absent, false}, and a processed
\* sample with no hand resets it to {absent, false}, also during a cooldown.
C11_GapResetsState ==
  /\ last.kind = "init" => (lastYRef = Null /\ ~isCooldownRef)
  /\ (IsFrameCall /\ last.stepped /\ last.y = Null) =>
       (lastYRef = Null /\ ~isCooldownRef)

\* C11 (amended): the debouncer starts as {absent, false}; a processed sample
\* with no hand sets lastYRef to absent and leaves isCooldownRef as it was, so
\* a cooldown in progress stays in progress.
C11_GapResetsBaselineOnly ==
  /\ last.kind = "init" => (lastYRef = Null /\ ~isCooldownRef)
  /\ (IsFrameCall /\ last.stepped /\ last.y = Null) =>
       (lastYRef = Null /\ isCooldownRef = last.preCooling)
C11_Witness ==
  /\ last.kind = "frame" /\ last.stepped /\ last.y = Null
  /\ last.preCooling /\ last.preLastY # Null /\ isCooldownRef

\* C12: while the component stays mounted and frame callbacks keep running,
\* every cooldown eventually expires: isCooldownRef set leads to isCooldownRef
\* cleared, also across a re-run of the effect.
C12_CooldownExpires ==
  ([]<>(last.kind = "frame")) =>
    ((isCooldownRef /\ domMounted) ~> (~isCooldownRef \/ ~domMounted))

\* C13: a step issues a scroll request iff it changed activeIndex, the target is
\* activeIndex * innerHeight, and the last requested target always matches the
\* current activeIndex (no request at all while the index never left 0).
C13_ScrollFollowsIndex ==
  /\ last.scrolled <=> activeIndex # last.preIndex
  /\ last.scrolled => scrollTop = activeIndex * innerHeight
  /\ ~last.scrolled => scrollTop = last.preTop
  /\ scrollTop # Null => scrollTop = activeIndex * innerHeight
  /\ scrollTop = Null => activeIndex = 0
C13_Witness ==
  /\ last.emitted = "PREV" /\ last.scrolled /\ last.preTop = 3 * innerHeight
  /\ scrollTop = 2 * innerHeight /\ activeIndex = 2

\* C14: whatever the cleanup interleaves with, a torn-down effect whose setup
\* has finished holds no open recognizer and no live camera stream.
C14_ResourcesReleased ==
  \A e \in Effects :
    (~isMounted[e] /\ pc[e] = "done") =>
      (gestureRecognizer[e] # "open" /\ stream[e] # "live")

\* C15: what a frame with a recognition result does to the debouncer does not
\* depend on debugMode: the event, lastYRef and isCooldownRef are those of the
\* landmark branch, and a frame without a result changes nothing.
C15_DetectionIgnoresDebugMode ==
  IsFrameCall =>
    /\ last.emitted = IF last.recognized
                        THEN Emit(last.preLastY, last.preCooling, last.y) ELSE "NONE"
    /\ lastYRef = IF last.recognized
                    THEN StepLastY(last.preLastY, last.preCooling, last.y)
                    ELSE last.preLastY
    /\ isCooldownRef = IF last.recognized
                         THEN StepCooling(last.preLastY, last.preCooling, last.y)
                         ELSE last.preCooling

\* C16: a setup continuation of an effect whose cleanup has run reports no
\* status message, whichever await it was suspended in.
C16_NoStatusAfterCleanup ==
  (last.kind \in {"setup", "play"} /\ ~last.preMounted) => last.reported = "none"

\* C17: at most one cooldown timer that can still change state is pending, it is
\* pending only during a cooldown, a timer is scheduled only by a step that
\* starts outside a cooldown, and only such a timer clears isCooldownRef.
LivePending == {e \in Effects : isMounted[e] /\ timers[e] > 0}
C17_OneLiveTimer ==
  /\ Cardinality(LivePending) <= 1
  /\ \A e \in LivePending : timers[e] = 1
  /\ LivePending # {} => isCooldownRef
  /\ last.emitted # "NONE" => (~last.preCooling /\ LivePending = {last.eff})
  /\ (last.preCooling /\ ~isCooldownRef) => (last.kind = "timer" /\ last.preMounted)
C17_Witness ==
  /\ last.kind = "timer" /\ last.preMounted /\ last.preCooling
  /\ ~isCooldownRef /\ LivePending = {} /\ activeIndex >= 2

====
